---- MODULE Spec2Model ----
(***************************************************************************)
(* wellington: the markdown -> html conversion of one document.            *)
(*                                                                         *)
(* SidenoteParser (src/src/parser.rs, src/src/sidenotes.rs) is an iterator *)
(* that wraps the pulldown_cmark event iterator; html_from_markdown drives *)
(* it to the end, pushing every event it yields to the article buffer and  *)
(* returning at the first error.                                           *)
(*                                                                         *)
(* Blog (src/src/toc.rs) keeps the index of the posts of a blog directory: *)
(* `sync` loads the persisted index, compares it with the post directories *)
(* found on disk, converts the new and the changed posts, drops the        *)
(* removed ones, and writes the table of contents and the index.           *)
(*                                                                         *)
(* Strings are sequences of one-character strings.  Option<T> is a         *)
(* sequence of length at most one: None is <<>> and Some(x) is <<x>>.      *)
(***************************************************************************)
EXTENDS Integers, Sequences, FiniteSets, TLC

\* ------------------------------------------------------------------ bounds
\* Input events one document holds at most.
MaxEvents == 6
\* Characters of text all the Text events of one document hold at most.
MaxChars == 3
\* The latest time the clock of the blog's machine reaches.
MaxTime == 3
\* Runs of the sync command.
MaxSyncs == 2

\* ------------------------------------------------------------ value spaces
\* The characters of a text fragment: a plain character and the delimiters.
Chars == {"a", "{", "}"}

\* The regular expression [{}] of parse_first_sidenote.
Delims == {"{", "}"}

\* Non-empty text fragments of at most n characters.
Texts(n) == UNION {[1..k -> Chars] : k \in 1..n}

\* Link prefixes html_from_markdown may be called with.
Prefixes == {<<>>, <<"p", "/">>}

\* Destinations of links and images: relative, root-relative, with a scheme.
Urls == {<<"r">>, <<"/", "r">>, <<"s", ":", "/", "/", "r">>}

\* Titles of links and images.
LinkTitles == {<<>>, <<"t">>}

None == <<>>

Some(x) == <<x>>

\* ------------------------------------------------- pulldown_cmark::Event
Text(s) == [k |-> "Text", tag |-> "", s |-> s, title |-> <<>>]

InlineHtml(h) == [k |-> "InlineHtml", tag |-> "", s |-> <<h>>, title |-> <<>>]

Start(tag, url, title) == [k |-> "Start", tag |-> tag, s |-> url, title |-> title]

End(tag, url, title) == [k |-> "End", tag |-> tag, s |-> url, title |-> title]

\* Tags without a destination.  Header2 stands for every tag parse_next_event
\* passes through under its `_` arm.
PlainTags == {"Paragraph", "Header1", "Header2", "Code", "CodeBlock"}

\* Block-level tags: they open at the top level of the document only.
BlockTags == {"Paragraph", "Header1", "Header2", "CodeBlock"}

\* Tags that carry a destination and a title.
LinkTags == {"Image", "Link"}

\* ------------------------------------------------ Result<Event, SidenoteError>
NoEvent == [k |-> "", tag |-> "", s |-> <<>>, title |-> <<>>]

Ok(e) == [ok |-> TRUE, e |-> e, err |-> ""]

Err(x) == [ok |-> FALSE, e |-> NoEvent, err |-> x]

VARIABLES
    \* SidenoteParser's fields
    link_prefix, in_code_block, in_sidenote_block, remaining_text,
    in_title, in_image, remaining_events,
    \* the caller's title, which SidenoteParser borrows mutably
    title,
    \* the wrapped pulldown_cmark parser: open tags, events and characters given
    parser,
    \* next_event of SidenoteParser::next: the event pulled last (an Option)
    next_event,
    \* what SidenoteParser::next returned last: Option<Result<Event, _>>
    item,
    \* html_from_markdown: the article buffer (the events pushed, in order),
    \* where the function is, and what it returned (an Option)
    article, pc, result,
    \* history: the text fragment under scan and the length of the article
    \* when its scan began; the text of each level-1 header seen
    fragment, header_texts

VARIABLES
    \* the file system: the post directories of the blog root, the persisted
    \* index .index.csv and the table of contents index.html (Options), and
    \* the clock that stamps the modification times
    fs_posts, fs_index, fs_toc, clock,
    \* Blog's fields: its path and its index
    blog_path, index,
    \* the sync command: where it is, the force flag main passed, the posts
    \* Blog::update has still to visit, its count, and what sync returned
    sync_pc, force, all_posts, num_updated, sync_result,
    \* history: what the pass under way began with and did; whether the last
    \* command was a sync that returned Ok; the sync commands run
    pass, last_ok, syncs

\* The state of one conversion.
convert_vars == <<link_prefix, in_code_block, in_sidenote_block,
                  remaining_text, in_title, in_image, remaining_events,
                  title, parser, next_event, item, article, pc, result,
                  fragment, header_texts>>

\* The state of the blog and of the sync command.
blog_vars == <<fs_posts, fs_index, fs_toc, clock, blog_path, index, sync_pc,
               force, all_posts, num_updated, sync_result, pass, last_ok,
               syncs>>

vars == <<convert_vars, blog_vars>>

\* The SidenoteParser as one value.
Self == [link_prefix |-> link_prefix, in_code_block |-> in_code_block,
         in_sidenote_block |-> in_sidenote_block,
         remaining_text |-> remaining_text, in_title |-> in_title,
         in_image |-> in_image, remaining_events |-> remaining_events]

\* ------------------------------------------------------- SidenoteParser
\* Every method is an operator from the parser (and its arguments) to the
\* parser it leaves and the value it returns: [self |-> ..., ret |-> ...].

\* SidenoteParser::new followed by set_link_prefix.
new(prefix) == [link_prefix |-> prefix, in_code_block |-> FALSE,
                in_sidenote_block |-> FALSE, remaining_text |-> <<>>,
                in_title |-> FALSE, in_image |-> FALSE,
                remaining_events |-> <<>>]

\* parse_code_tag without its test of in_sidenote_block.
parse_code_tag_unguarded(self, start, on_success_return) ==
    [self |-> [self EXCEPT !.in_code_block = start],
     ret |-> Ok(on_success_return)]

\* parse_code_tag setting in_code_block whatever `start` is.
parse_code_tag_ignores_start(self, start, on_success_return) ==
    IF self.in_sidenote_block
    THEN [self |-> self, ret |-> Err("NotMatched")]
    ELSE [self |-> [self EXCEPT !.in_code_block = TRUE],
          ret |-> Ok(on_success_return)]

parse_code_tag(self, start, on_success_return) ==
    IF self.in_sidenote_block
    THEN [self |-> self, ret |-> Err("NotMatched")]
    ELSE [self |-> [self EXCEPT !.in_code_block = start],
          ret |-> Ok(on_success_return)]

\* parse_paragraph_tag without its test of in_sidenote_block.
parse_paragraph_tag_plain(self, start) ==
    IF start THEN Start("Paragraph", <<>>, <<>>)
             ELSE End("Paragraph", <<>>, <<>>)

parse_paragraph_tag(self, start) ==
    IF self.in_sidenote_block
    THEN IF start THEN InlineHtml("<br /><br />\n") ELSE Text(<<>>)
    ELSE IF start THEN Start("Paragraph", <<>>, <<>>)
                  ELSE End("Paragraph", <<>>, <<>>)

start_codeblock == InlineHtml("<pre><code class=\"code\">")

\* link.contains(pat)
Contains(link, pat) ==
    \E i \in 1..(Len(link) - Len(pat) + 1) :
        SubSeq(link, i, i + Len(pat) - 1) = pat

\* link_is_relative without its test of a leading `/`.
link_is_relative_scheme_only(link) ==
    ~Contains(link, <<":", "/", "/">>)

link_is_relative(link) ==
    ~(Contains(link, <<":", "/", "/">>) \/ (Len(link) > 0 /\ link[1] = "/"))

rewrite_link(self, link) ==
    IF link_is_relative(link) THEN self.link_prefix \o link ELSE link

\* re.find(&text): the place of the first delimiter, 0 when there is none.
FirstDelim(text) ==
    IF \E i \in 1..Len(text) : text[i] \in Delims
    THEN CHOOSE i \in 1..Len(text) :
            /\ text[i] \in Delims
            /\ \A j \in 1..(i - 1) : text[j] \notin Delims
    ELSE 0

\* parse_first_sidenote keeping text[m.end()..], not text[m.start()..].
parse_first_sidenote_past_match(self, text) ==
    LET m == FirstDelim(text) IN
    IF m > 0
    THEN [self |-> [self EXCEPT
                       !.remaining_text = SubSeq(text, m + 1, Len(text))],
          ret |-> Text(SubSeq(text, 1, m - 1))]
    ELSE [self |-> [self EXCEPT !.remaining_text = <<>>],
          ret |-> Text(text)]

parse_first_sidenote(self, text) ==
    LET m == FirstDelim(text) IN
    IF m > 0
    THEN [self |-> [self EXCEPT !.remaining_text = SubSeq(text, m, Len(text))],
          ret |-> Text(SubSeq(text, 1, m - 1))]
    ELSE [self |-> [self EXCEPT !.remaining_text = <<>>],
          ret |-> Text(text)]

\* cycle_remaining_text giving the first character and leaving it in place.
cycle_remaining_text_peeks(self) ==
    [self |-> self, ret |-> Head(self.remaining_text)]

\* Called with a non-empty remaining_text only (it panics otherwise).
cycle_remaining_text(self) ==
    [self |-> [self EXCEPT !.remaining_text = Tail(self.remaining_text)],
     ret |-> Head(self.remaining_text)]

\* parse_remaining_text without its tests of in_sidenote_block: every `{`
\* opens and every `}` closes.
parse_remaining_text_unchecked(self) ==
    LET c == cycle_remaining_text(self)
        s1 == c.self
        first_char == c.ret
    IN  CASE first_char = "{" ->
                [self |-> [s1 EXCEPT !.in_sidenote_block = TRUE],
                 ret |-> Ok(InlineHtml("<span>"))]
          [] first_char = "}" ->
                [self |-> [s1 EXCEPT !.in_sidenote_block = FALSE],
                 ret |-> Ok(InlineHtml("</span>"))]
          [] OTHER ->
                LET p == parse_first_sidenote(
                             s1, <<first_char>> \o s1.remaining_text)
                IN  [self |-> p.self, ret |-> Ok(p.ret)]

parse_remaining_text(self) ==
    LET c == cycle_remaining_text(self)
        s1 == c.self
        first_char == c.ret
    IN  CASE first_char = "{" ->
                IF s1.in_sidenote_block
                THEN [self |-> s1, ret |-> Err("Nested")]
                ELSE [self |-> [s1 EXCEPT !.in_sidenote_block = TRUE],
                      ret |-> Ok(InlineHtml("<span>"))]
          [] first_char = "}" ->
                IF s1.in_sidenote_block
                THEN [self |-> [s1 EXCEPT !.in_sidenote_block = FALSE],
                      ret |-> Ok(InlineHtml("</span>"))]
                ELSE [self |-> s1, ret |-> Err("NotMatched")]
          [] OTHER ->
                LET p == parse_first_sidenote(
                             s1, <<first_char>> \o s1.remaining_text)
                IN  [self |-> p.self, ret |-> Ok(p.ret)]

\* parse_text_block without its test of in_code_block.
parse_text_block_always_scans(self, text) ==
    parse_first_sidenote(self, text)

parse_text_block(self, text) ==
    IF self.in_code_block
    THEN [self |-> self, ret |-> Text(text)]
    ELSE parse_first_sidenote(self, text)

parse_next_event(self, event) ==
    CASE event.k = "Text" ->
            LET p == parse_text_block(self, event.s)
            IN  [self |-> p.self, ret |-> Ok(p.ret)]
      [] event.k = "Start" /\ event.tag = "Code" ->
            parse_code_tag(self, TRUE, Start("Code", <<>>, <<>>))
      [] event.k = "Start" /\ event.tag = "CodeBlock" ->
            parse_code_tag(self, TRUE, start_codeblock)
      [] event.k = "Start" /\ event.tag = "Paragraph" ->
            [self |-> self, ret |-> Ok(parse_paragraph_tag(self, TRUE))]
      [] event.k = "Start" /\ event.tag = "Header1" ->
            [self |-> [self EXCEPT !.in_title = TRUE],
             ret |-> Ok(Start("Header1", <<>>, <<>>))]
      [] event.k = "Start" /\ event.tag = "Image" ->
            [self |-> [self EXCEPT !.in_image = TRUE],
             ret |-> Ok(Start("Image", rewrite_link(self, event.s),
                              event.title))]
      [] event.k = "Start" /\ event.tag = "Link" ->
            [self |-> self,
             ret |-> Ok(Start("Link", rewrite_link(self, event.s),
                              event.title))]
      [] event.k = "End" /\ event.tag = "Code" ->
            parse_code_tag(self, FALSE, End("Code", <<>>, <<>>))
      [] event.k = "End" /\ event.tag = "CodeBlock" ->
            parse_code_tag(self, FALSE, End("CodeBlock", <<>>, <<>>))
      [] event.k = "End" /\ event.tag = "Paragraph" ->
            [self |-> self, ret |-> Ok(parse_paragraph_tag(self, FALSE))]
      [] event.k = "End" /\ event.tag = "Header1" ->
            [self |-> [self EXCEPT !.in_title = FALSE],
             ret |-> Ok(InlineHtml("</h1><section>"))]
      [] event.k = "End" /\ event.tag = "Image" ->
            [self |-> [self EXCEPT !.in_image = FALSE],
             ret |-> Ok(End("Image", event.s, event.title))]
      [] OTHER -> [self |-> self, ret |-> Ok(event)]

\* The first two arms of SidenoteParser::next, which serve what the parser
\* holds back before the wrapped parser is asked again: a buffered event
\* (Vec::pop takes the last one), then the remaining text.
next_buffered(self) ==
    IF self.remaining_events # <<>>
    THEN [self |-> [self EXCEPT !.remaining_events =
                        SubSeq(@, 1, Len(@) - 1)],
          ret |-> Ok(self.remaining_events[Len(self.remaining_events)])]
    ELSE parse_remaining_text(self)

\* normalize_title unwrapping the title to its default instead of matching it.
normalize_title_unwrapped(t) ==
    Some(IF t = None THEN <<>> ELSE t[1])

\* html_from_markdown's last step on the title: an empty title is no title.
normalize_title(t) ==
    IF t = None THEN None
    ELSE IF Len(t[1]) = 0 THEN None ELSE Some(t[1])

\* ------------------------------------------------------ html_from_markdown
\* A literal html_from_markdown pushes to the article itself.
Literal(h) == [k |-> "Literal", tag |-> "", s |-> <<h>>, title |-> <<>>]

\* Result<ParsedMarkdown, SidenoteError>
ParsedMarkdown(html, t) == [ok |-> TRUE, html |-> html, title |-> t, err |-> ""]

Failed(x) == [ok |-> FALSE, html |-> <<>>, title |-> None, err |-> x]

\* The tags the wrapped parser has open, innermost last, as they were started.
OpenTags == {parser.open[i].tag : i \in 1..Len(parser.open)}

Innermost == parser.open[Len(parser.open)]

\* let mut title = None; let mut article = "<article>"; SidenoteParser::new;
\* set_link_prefix.  The document is what the wrapped parser goes on to give.
ConvertInit ==
    /\ \E prefix \in Prefixes :
        /\ link_prefix = new(prefix).link_prefix
        /\ in_code_block = new(prefix).in_code_block
        /\ in_sidenote_block = new(prefix).in_sidenote_block
        /\ remaining_text = new(prefix).remaining_text
        /\ in_title = new(prefix).in_title
        /\ in_image = new(prefix).in_image
        /\ remaining_events = new(prefix).remaining_events
    /\ title = None
    /\ parser = [open |-> <<>>, pulled |-> 0, chars |-> 0]
    /\ next_event = None
    /\ item = None
    /\ article = <<Literal("<article>")>>
    /\ pc = "loop"
    /\ result = None
    /\ fragment = [text |-> <<>>, at |-> 1, open |-> FALSE]
    /\ header_texts = <<>>

\* The parser after a method has run.
SelfBecomes(self) ==
    /\ link_prefix' = self.link_prefix
    /\ in_code_block' = self.in_code_block
    /\ in_sidenote_block' = self.in_sidenote_block
    /\ remaining_text' = self.remaining_text
    /\ in_title' = self.in_title
    /\ in_image' = self.in_image
    /\ remaining_events' = self.remaining_events

\* Yield skipping an Err instead of returning it (`if let Ok(e) = event`).
Yield_skips_errors(r) ==
    /\ SelfBecomes(r.self)
    /\ item' = Some(r.ret)
    /\ article' = IF r.ret.ok THEN Append(article, r.ret.e) ELSE article
    /\ pc' = "loop"
    /\ result' = None
    /\ UNCHANGED <<title, blog_vars>>

\* One turn of `for event in parser { push_html(&mut article, event?) }` in
\* which the parser yields r.ret: an event is pushed, an error is returned.
Yield(r) ==
    /\ SelfBecomes(r.self)
    /\ item' = Some(r.ret)
    /\ IF r.ret.ok
       THEN /\ article' = Append(article, r.ret.e)
            /\ pc' = "loop"
            /\ result' = None
       ELSE /\ article' = article
            /\ pc' = "done"
            /\ result' = Some(Failed(r.ret.err))
    /\ UNCHANGED <<title, blog_vars>>

\* The wrapped parser is asked only when nothing is held back.
MustPull ==
    /\ pc = "loop"
    /\ remaining_events = <<>>
    /\ Len(remaining_text) = 0

\* next(): a buffered event or the remaining text is served.
ServeBuffered ==
    /\ pc = "loop"
    /\ remaining_events # <<>> \/ Len(remaining_text) > 0
    /\ Yield(next_buffered(Self))
    /\ UNCHANGED <<parser, next_event, fragment, header_texts>>

\* next(): the wrapped parser gives a text fragment.
PullText(t) ==
    /\ MustPull
    /\ parser.open # <<>>
    /\ parser.pulled + Len(parser.open) + 1 <= MaxEvents
    /\ parser' = [parser EXCEPT !.pulled = @ + 1, !.chars = @ + Len(t)]
    /\ next_event' = Some(Text(t))
    /\ Yield(parse_next_event(Self, Text(t)))
    /\ fragment' = IF in_code_block THEN fragment
                   ELSE [text |-> t, at |-> Len(article),
                         open |-> in_sidenote_block]
    /\ header_texts' =
          IF "Header1" \in OpenTags
          THEN [header_texts EXCEPT ![Len(header_texts)] = @ \o t]
          ELSE header_texts

\* next(): the wrapped parser gives a start tag.  Blocks open at the top
\* level, code spans, images and links inside a paragraph or a header.
PullStart(tag, url, ttl) ==
    /\ MustPull
    /\ IF tag \in BlockTags
       THEN parser.open = <<>>
       ELSE /\ parser.open # <<>>
            /\ Innermost.tag \in {"Paragraph", "Header1", "Header2"}
    /\ parser.pulled + Len(parser.open) + 2 <= MaxEvents
    /\ parser' = [parser EXCEPT !.pulled = @ + 1,
                                !.open = Append(@, Start(tag, url, ttl))]
    /\ next_event' = Some(Start(tag, url, ttl))
    /\ Yield(parse_next_event(Self, Start(tag, url, ttl)))
    /\ header_texts' = IF tag = "Header1" THEN Append(header_texts, <<>>)
                       ELSE header_texts
    /\ UNCHANGED fragment

\* next(): the wrapped parser gives the end tag of the innermost open tag.
PullEnd ==
    /\ MustPull
    /\ parser.open # <<>>
    /\ LET e == End(Innermost.tag, Innermost.s, Innermost.title) IN
        /\ parser' = [parser EXCEPT !.pulled = @ + 1,
                                    !.open = SubSeq(@, 1, Len(@) - 1)]
        /\ next_event' = Some(e)
        /\ Yield(parse_next_event(Self, e))
    /\ UNCHANGED <<fragment, header_texts>>

\* next(): the wrapped parser is at its end; next() returns None, the loop
\* ends and html_from_markdown returns the article and the title.
PullNone ==
    /\ MustPull
    /\ parser.open = <<>>
    /\ next_event' = None
    /\ item' = None
    /\ article' = Append(article, Literal("</section></article>"))
    /\ result' = Some(ParsedMarkdown(article', normalize_title(title)))
    /\ pc' = "done"
    /\ UNCHANGED <<link_prefix, in_code_block, in_sidenote_block,
                   remaining_text, in_title, in_image, remaining_events,
                   title, parser, fragment, header_texts, blog_vars>>



\* ==================================================================== Blog
\* The names of the post directories the blog root may hold.
PostNames == {"p1", "p2"}

\* The path of the blog root (env::current_dir), as its components.
BlogRoot == <<"home", "blog">>

\* The places the blog directory may be moved to: under another parent with
\* its name, or under another name.
BlogRoots == {BlogRoot, <<"srv", "blog">>, <<"home", "site">>}

\* An entry of the blog root: a directory or a plain file; for a directory,
\* whether it holds index.md and index.html, its modification time and that
\* of its index.md.  This is the entry that is not there.
NoDir == [dir |-> FALSE, file |-> FALSE, md |-> FALSE, html |-> FALSE,
          mtime |-> 0, md_mtime |-> 0]

\* A plain file in the blog root.
PlainFile == [NoDir EXCEPT !.file = TRUE]

\* struct BlogPost
BlogPost(path, last_updated) == [path |-> path, last_updated |-> last_updated]

\* The url made of the whole path, from its first component on.
post_url_from_whole_path(path) ==
    LET post_name == IF Len(path) >= 1 THEN path[Len(path)] ELSE ""
        top_name == IF Len(path) >= 2 THEN path[1] ELSE ""
    IN  <<"/", top_name, "/", post_name, "/">>

\* "/{blog_name}/{post_name}/" of the last two components of the path.
post_url_from_path(path) ==
    LET post_name == IF Len(path) >= 1 THEN path[Len(path)] ELSE ""
        blog_name == IF Len(path) >= 2 THEN path[Len(path) - 1] ELSE ""
    IN  <<"/", blog_name, "/", post_name, "/">>

\* ---------------------------------------------------------- .index.csv
\* The index file is CSV without a header line: one line for each post,
\* its fields separated by commas.  A line is a sequence of characters.
Comma == ","

Quote == "\""

DigitChars == <<"0", "1", "2", "3", "4", "5", "6", "7", "8", "9">>

\* A time as the writer prints it, in decimal.
ToDecimal(n) ==
    IF n < 10 THEN <<DigitChars[n + 1]>>
    ELSE <<DigitChars[(n \div 10) + 1], DigitChars[(n % 10) + 1]>>

DigitValue(c) == CHOOSE d \in 0..9 : DigitChars[d + 1] = c

\* A time as the reader parses it.
FromDecimal(s) ==
    IF Len(s) = 1 THEN DigitValue(s[1])
    ELSE 10 * DigitValue(s[1]) + DigitValue(s[2])

\* Every quote of a field written twice.
RECURSIVE doubled(_)
doubled(s) ==
    IF s = <<>> THEN <<>>
    ELSE (IF Head(s) = Quote THEN <<Quote, Quote>> ELSE <<Head(s)>>)
         \o doubled(Tail(s))

\* A field written as it is, with nothing quoted.
write_field_unquoted(s) == s

\* The writer puts a field that holds a quote or a comma between quotes and
\* doubles the quotes inside it.
write_field(s) ==
    IF \E i \in 1..Len(s) : s[i] \in {Quote, Comma}
    THEN <<Quote>> \o doubled(s) \o <<Quote>>
    ELSE s

\* The fields of a record joined by commas.
RECURSIVE write_record(_)
write_record(fields) ==
    IF Len(fields) = 1 THEN write_field(fields[1])
    ELSE write_field(fields[1]) \o <<Comma>> \o write_record(Tail(fields))

\* The reader going through a line: a quote at the start of a field opens a
\* quoted field, in which a doubled quote is a quote and a single one ends
\* the quoting; outside quotes a comma ends the field.  `cur` is the field
\* being read and `done` are the fields read.
RECURSIVE read_fields(_, _, _, _, _)
read_fields(line, start, quoted, cur, done) ==
    IF line = <<>> THEN Append(done, cur)
    ELSE LET c == Head(line)
             rest == Tail(line)
         IN  IF quoted
             THEN IF c = Quote
                  THEN IF rest # <<>> /\ Head(rest) = Quote
                       THEN read_fields(Tail(rest), FALSE, TRUE,
                                        Append(cur, Quote), done)
                       ELSE read_fields(rest, FALSE, FALSE, cur, done)
                  ELSE read_fields(rest, FALSE, TRUE, Append(cur, c), done)
             ELSE IF c = Comma
                  THEN read_fields(rest, TRUE, FALSE, <<>>, Append(done, cur))
                  ELSE IF c = Quote /\ start
                       THEN read_fields(rest, FALSE, TRUE, cur, done)
                       ELSE read_fields(rest, FALSE, FALSE, Append(cur, c),
                                        done)

read_record(line) == read_fields(line, TRUE, FALSE, <<>>, <<>>)

\* The line of a post in .index.csv: path and checked are skipped, a time
\* is its seconds and its nanoseconds since the epoch (times are whole
\* seconds here), an absent title is an empty field.
Persisted(post) ==
    write_record(<<post.post_url,
                   ToDecimal(post.last_updated), ToDecimal(0),
                   ToDecimal(post.first_published), ToDecimal(0),
                   IF post.title = None THEN <<>> ELSE post.title[1]>>)

\* A line read back: the skipped fields take their defaults, an empty last
\* field is an absent title.
Deserialized(line) ==
    LET fields == read_record(line) IN
    [path |-> <<>>, post_url |-> fields[1],
     last_updated |-> FromDecimal(fields[2]),
     first_published |-> FromDecimal(fields[4]), checked |-> FALSE,
     title |-> IF fields[6] = <<>> THEN None ELSE Some(fields[6])]

\* What the templates are given of a post.
Rendered(post) ==
    [post_url |-> post.post_url, last_updated |-> post.last_updated,
     first_published |-> post.first_published, title |-> post.title]

\* Blog::load on an index file that exists: the records are pushed to the
\* index the Blog holds.
load(idx, file) ==
    idx \o [i \in 1..Len(file) |-> Deserialized(file[i])]

\* The lines Blog::persist writes.
persist(idx) == [i \in 1..Len(idx) |-> Persisted(idx[i])]

\* The table of contents listing the posts last to first.
render_index_reversed(idx) ==
    [i \in 1..Len(idx) |-> Rendered(idx[Len(idx) + 1 - i])]

\* What the index template renders: the posts of the index, in its order.
render_index(idx) == [i \in 1..Len(idx) |-> Rendered(idx[i])]

\* list_entries keeping every entry of the blog root, whatever only_dir is.
list_entries_any_kind(only_dir) ==
    {p \in PostNames : fs_posts[p].dir \/ fs_posts[p].file}

\* list_entries on the blog root: its entries, only the directories among
\* them when only_dir is set.
list_entries(only_dir) ==
    {p \in PostNames : /\ fs_posts[p].dir \/ fs_posts[p].file
                       /\ fs_posts[p].dir \/ ~only_dir}

\* The post directories list_posts finds: the subdirectories of the blog
\* root that hold index.md.
Discovered == {p \in list_entries(TRUE) : fs_posts[p].md}

\* The orders in which read_dir may give the members of a set.
Orderings(S) ==
    {seq \in [1..Cardinality(S) -> S] :
        \A i, j \in 1..Cardinality(S) : i # j => seq[i] # seq[j]}

\* What list_posts may return: every found post once, with the modification
\* time of its directory, in some order.
list_posts ==
    {[i \in 1..Len(seq) |->
         BlogPost(blog_path \o <<seq[i]>>, fs_posts[seq[i]].mtime)] :
     seq \in Orderings(Discovered)}

\* The place of the first entry with the post's url, 0 when there is none.
find_in_index(idx, post) ==
    IF \E i \in 1..Len(idx) : idx[i].post_url = post_url_from_path(post.path)
    THEN CHOOSE i \in 1..Len(idx) :
            /\ idx[i].post_url = post_url_from_path(post.path)
            /\ \A j \in 1..(i - 1) :
                  idx[j].post_url # post_url_from_path(post.path)
    ELSE 0

\* The title html_from_markdown returns: the title SidenoteParser borrows is
\* never written, so the match on it sees None.
ParsedTitle == normalize_title(None)

\* Blog::sync calls update(false).
dry_run == FALSE

\* How IndexedBlogPost::convert may end.
ConvertOutcomes == {"Ok", "ReadError", "ConvertError", "WriteError"}

\* The pruning keeping every entry, checked or not.
Retained_all(idx) == idx

\* The end of Blog::update: the entries that were not checked are dropped.
Retained(idx) == SelectSeq(idx, LAMBDA post : post.checked)

\* The dropped entries left out of the count.
Dropped_uncounted(idx) == 0

\* Each dropped entry counts as an update.
Dropped(idx) == Len(idx) - Len(Retained(idx))

\* Result<usize, BlogError>
Updated(n) == [ok |-> TRUE, n |-> n, err |-> ""]

SyncError(x) == [ok |-> FALSE, n |-> 0, err |-> x]

\* The arguments main may be run with for the sync command.
SyncArgs == {<<"sync">>, <<"sync", "-f">>, <<"sync", "--force">>}

\* main: sync(true) when the one argument after the command is "-f".
force_flag(args) == Len(args) = 2 /\ args[2] = "-f"

\* What is remembered of a run of sync: its arguments, the index it loaded,
\* the posts it found, the index file and the table of contents before it,
\* the posts it converted, the files it wrote, the directory its scan could
\* not read, whether it came right after a run that succeeded, where the
\* blog was when only a move of it lies between that run and this one, the
\* error main reported, the exit code of the process, and whether the Blog
\* had been synced before.
NoPass == [args |-> <<>>, loaded |-> <<>>, discovered |-> <<>>,
           fs_index |-> None, fs_toc |-> None, converted |-> <<>>,
           wrote |-> {}, scanned |-> FALSE, unreadable |-> None,
           follows_ok |-> FALSE, moved_from |-> None,
           reported |-> None, exit |-> None, reused |-> FALSE]

\* The record of a run that starts: its arguments, the table of contents
\* it finds, and what came before it.
NewPass(args) ==
    [NoPass EXCEPT !.args = args, !.fs_toc = fs_toc, !.follows_ok = last_ok,
                   !.moved_from = pass.moved_from,
                   !.reused = (sync_pc = "done")]

\* Nothing has been created and no command has run.
BlogInit ==
    /\ fs_posts = [p \in PostNames |-> NoDir]
    /\ fs_index = None
    /\ fs_toc = None
    /\ clock = 0
    /\ blog_path = BlogRoot
    /\ index = <<>>
    /\ sync_pc = "idle"
    /\ force = FALSE
    /\ all_posts = <<>>
    /\ num_updated = 0
    /\ sync_result = None
    /\ pass = NoPass
    /\ last_ok = FALSE
    /\ syncs = 0

Init == ConvertInit /\ BlogInit


\* The conversion of documents, with no blog around it.
Next ==
    \/ ServeBuffered
    \/ \E t \in Texts(MaxChars - parser.chars) : PullText(t)
    \/ \E tag \in PlainTags : PullStart(tag, <<>>, <<>>)
    \/ \E tag \in LinkTags, url \in Urls, ttl \in LinkTitles :
          PullStart(tag, url, ttl)
    \/ PullEnd
    \/ PullNone

Spec == Init /\ [][Next]_vars

\* The conversion of the documents that hold no link and no image, which
\* have no part in the scan of a text.  html_from_markdown's loop goes on as
\* long as the parser yields: a turn that can be taken is taken.
ScanNext ==
    \/ ServeBuffered
    \/ \E t \in Texts(MaxChars - parser.chars) : PullText(t)
    \/ \E tag \in PlainTags : PullStart(tag, <<>>, <<>>)
    \/ PullEnd
    \/ PullNone

ScanInit == Init /\ link_prefix = <<>>

ScanSpec == ScanInit /\ [][ScanNext]_vars /\ WF_vars(ScanNext)

\* --------------------------------------------------------------- sync
\* Blog::sync returns r: main prints what happened.
Return(r) ==
    /\ sync_pc' = "done"
    /\ sync_result' = Some(r)
    /\ last_ok' = r.ok

\* Blog::sync once the index file could be opened and holds `file`: the
\* records are read, which may fail, and update lists the posts, which may
\* fail.
Scan(args, file) ==
    \/ /\ index' = index
       /\ all_posts' = <<>>
       /\ pass' = [NewPass(args) EXCEPT !.fs_index = fs_index]
       /\ Return(SyncError("ReadIndexError"))
    \/ \E d \in {blog_path} \cup
                 {blog_path \o <<p>> : p \in list_entries(TRUE)} :
          /\ index' = load(index, file)
          /\ all_posts' = <<>>
          /\ pass' = [NewPass(args) EXCEPT !.loaded = index',
                                           !.fs_index = fs_index,
                                           !.scanned = TRUE,
                                           !.unreadable = Some(d)]
          /\ Return(SyncError("CantReadDir"))
    \/ /\ \A p \in list_entries(TRUE) : fs_posts[p].dir
       /\ index' = load(index, file)
       /\ all_posts' \in list_posts
       /\ pass' = [NewPass(args) EXCEPT !.loaded = index',
                                        !.discovered = all_posts',
                                        !.fs_index = fs_index,
                                        !.scanned = TRUE]
       /\ sync_pc' = "update"
       /\ sync_result' = None
       /\ UNCHANGED last_ok

\* The command taking a missing index file for an empty index.
SyncBegin_tolerates_absence(args) ==
    /\ sync_pc = "idle"
    /\ syncs < MaxSyncs
    /\ syncs' = syncs + 1
    /\ force' = force_flag(args)
    /\ num_updated' = 0
    /\ Scan(args, IF fs_index = None THEN <<>> ELSE fs_index[1])
    /\ UNCHANGED <<fs_posts, fs_index, fs_toc, clock, blog_path,
                   convert_vars>>

\* main with the sync command: Blog::new, then Blog::sync as far as the
\* listing of the posts in update.  Without an index file load returns
\* NoInit and sync with it.
SyncBegin(args) ==
    /\ sync_pc = "idle"
    /\ syncs < MaxSyncs
    /\ syncs' = syncs + 1
    /\ force' = force_flag(args)
    /\ num_updated' = 0
    /\ IF fs_index = None
       THEN /\ index' = <<>>
            /\ all_posts' = <<>>
            /\ pass' = NewPass(args)
            /\ Return(SyncError("NoInit"))
       ELSE Scan(args, fs_index[1])
    /\ UNCHANGED <<fs_posts, fs_index, fs_toc, clock, blog_path,
                   convert_vars>>

\* IndexedBlogPost::convert of the post at path, ending as o: index.md is
\* read and converted and index.html is written.  Creating index.html sets
\* the time of the directory to the time t of the write; writing over it
\* does not.
convert(path, o, t) ==
    LET name == path[Len(path)]
        creates == o = "Ok" /\ ~fs_posts[name].html
    IN  /\ t = clock \/ (creates /\ t = clock + 1 /\ t <= MaxTime)
        /\ clock' = t
        /\ fs_posts' = IF creates
                       THEN [fs_posts EXCEPT ![name].html = TRUE,
                                             ![name].mtime = t]
                       ELSE fs_posts

\* The loop of update goes on to the next post.
Continue ==
    /\ all_posts' = Tail(all_posts)
    /\ UNCHANGED <<sync_pc, sync_result, last_ok>>

\* update: the post is in the index and its time is not newer.
UpdateUnchanged ==
    /\ sync_pc = "update"
    /\ all_posts # <<>>
    /\ LET post == Head(all_posts)
           i == find_in_index(index, post)
       IN  /\ i > 0
           /\ ~(index[i].last_updated < post.last_updated)
           /\ index' = [index EXCEPT ![i].checked = TRUE,
                                     ![i].path = post.path]
    /\ Continue
    /\ UNCHANGED <<fs_posts, fs_index, fs_toc, clock, blog_path, force,
                   num_updated, pass, syncs, convert_vars>>

\* update giving a changed post a new time of first publication.
UpdateChanged_republishes(o, t) ==
    /\ sync_pc = "update"
    /\ all_posts # <<>>
    /\ LET post == Head(all_posts)
           i == find_in_index(index, post)
       IN  /\ i > 0
           /\ index[i].last_updated < post.last_updated
           /\ IF dry_run
              THEN /\ o = "Ok"
                   /\ t = clock
                   /\ UNCHANGED <<fs_posts, clock>>
              ELSE convert(post.path, o, t)
           /\ index' = [index EXCEPT
                 ![i].checked = TRUE,
                 ![i].path = post.path,
                 ![i].last_updated = post.last_updated,
                 ![i].first_published = post.last_updated,
                 ![i].title = IF o = "Ok" /\ ~dry_run THEN ParsedTitle
                              ELSE @]
           /\ IF o = "Ok"
              THEN /\ num_updated' = num_updated + 1
                   /\ pass' = [pass EXCEPT !.converted =
                                  IF dry_run THEN @
                                  ELSE Append(@, index[i].post_url)]
                   /\ Continue
              ELSE /\ Return(SyncError(o))
                   /\ UNCHANGED <<all_posts, num_updated, pass>>
    /\ UNCHANGED <<fs_index, fs_toc, blog_path, force, syncs, convert_vars>>

\* update going on to the next post when the conversion of a changed post
\* has failed.
UpdateChanged_ignores_failure(o, t) ==
    /\ sync_pc = "update"
    /\ all_posts # <<>>
    /\ LET post == Head(all_posts)
           i == find_in_index(index, post)
       IN  /\ i > 0
           /\ index[i].last_updated < post.last_updated
           /\ IF dry_run
              THEN /\ o = "Ok"
                   /\ t = clock
                   /\ UNCHANGED <<fs_posts, clock>>
              ELSE convert(post.path, o, t)
           /\ index' = [index EXCEPT
                 ![i].checked = TRUE,
                 ![i].path = post.path,
                 ![i].last_updated = post.last_updated,
                 ![i].title = IF o = "Ok" /\ ~dry_run THEN ParsedTitle
                              ELSE @]
           /\ IF o = "Ok"
              THEN /\ num_updated' = num_updated + 1
                   /\ pass' = [pass EXCEPT !.converted =
                                  IF dry_run THEN @
                                  ELSE Append(@, index[i].post_url)]
                   /\ Continue
              ELSE /\ num_updated' = num_updated + 1
                   /\ pass' = pass
                   /\ Continue
    /\ UNCHANGED <<fs_index, fs_toc, blog_path, force, syncs, convert_vars>>

\* update: the post is in the index and its time is newer.
UpdateChanged(o, t) ==
    /\ sync_pc = "update"
    /\ all_posts # <<>>
    /\ LET post == Head(all_posts)
           i == find_in_index(index, post)
       IN  /\ i > 0
           /\ index[i].last_updated < post.last_updated
           /\ IF dry_run
              THEN /\ o = "Ok"
                   /\ t = clock
                   /\ UNCHANGED <<fs_posts, clock>>
              ELSE convert(post.path, o, t)
           /\ index' = [index EXCEPT
                 ![i].checked = TRUE,
                 ![i].path = post.path,
                 ![i].last_updated = post.last_updated,
                 ![i].title = IF o = "Ok" /\ ~dry_run THEN ParsedTitle
                              ELSE @]
           /\ IF o = "Ok"
              THEN /\ num_updated' = num_updated + 1
                   /\ pass' = [pass EXCEPT !.converted =
                                  IF dry_run THEN @
                                  ELSE Append(@, index[i].post_url)]
                   /\ Continue
              ELSE /\ Return(SyncError(o))
                   /\ UNCHANGED <<all_posts, num_updated, pass>>
    /\ UNCHANGED <<fs_index, fs_toc, blog_path, force, syncs, convert_vars>>

\* update dating a new post by its directory, as From<BlogPost> does.
UpdateNew_dir_time(o, t) ==
    /\ sync_pc = "update"
    /\ all_posts # <<>>
    /\ LET post == Head(all_posts)
           now == clock
           new_post == [path |-> post.path,
                        post_url |-> post_url_from_path(post.path),
                        last_updated |-> post.last_updated,
                        first_published |-> post.last_updated,
                        checked |-> TRUE,
                        title |-> IF dry_run THEN None ELSE ParsedTitle]
       IN  /\ find_in_index(index, post) = 0
           /\ IF dry_run
              THEN /\ o = "Ok"
                   /\ t = clock
                   /\ UNCHANGED <<fs_posts, clock>>
              ELSE convert(post.path, o, t)
           /\ IF o = "Ok"
              THEN /\ index' = Append(index, new_post)
                   /\ num_updated' = num_updated + 1
                   /\ pass' = [pass EXCEPT !.converted =
                                  IF dry_run THEN @
                                  ELSE Append(@, new_post.post_url)]
                   /\ Continue
              ELSE /\ Return(SyncError(o))
                   /\ UNCHANGED <<index, all_posts, num_updated, pass>>
    /\ UNCHANGED <<fs_index, fs_toc, blog_path, force, syncs, convert_vars>>

\* update giving a new post the directory's time as last_updated and now as
\* first_published.
UpdateNew_updated_with_dir(o, t) ==
    /\ sync_pc = "update"
    /\ all_posts # <<>>
    /\ LET post == Head(all_posts)
           now == clock
           new_post == [path |-> post.path,
                        post_url |-> post_url_from_path(post.path),
                        last_updated |-> post.last_updated,
                        first_published |-> now,
                        checked |-> TRUE,
                        title |-> IF dry_run THEN None ELSE ParsedTitle]
       IN  /\ find_in_index(index, post) = 0
           /\ IF dry_run
              THEN /\ o = "Ok"
                   /\ t = clock
                   /\ UNCHANGED <<fs_posts, clock>>
              ELSE convert(post.path, o, t)
           /\ IF o = "Ok"
              THEN /\ index' = Append(index, new_post)
                   /\ num_updated' = num_updated + 1
                   /\ pass' = [pass EXCEPT !.converted =
                                  IF dry_run THEN @
                                  ELSE Append(@, new_post.post_url)]
                   /\ Continue
              ELSE /\ Return(SyncError(o))
                   /\ UNCHANGED <<index, all_posts, num_updated, pass>>
    /\ UNCHANGED <<fs_index, fs_toc, blog_path, force, syncs, convert_vars>>

\* update: the post is not in the index.
UpdateNew(o, t) ==
    /\ sync_pc = "update"
    /\ all_posts # <<>>
    /\ LET post == Head(all_posts)
           now == clock
           new_post == [path |-> post.path,
                        post_url |-> post_url_from_path(post.path),
                        last_updated |-> now, first_published |-> now,
                        checked |-> TRUE,
                        title |-> IF dry_run THEN None ELSE ParsedTitle]
       IN  /\ find_in_index(index, post) = 0
           /\ IF dry_run
              THEN /\ o = "Ok"
                   /\ t = clock
                   /\ UNCHANGED <<fs_posts, clock>>
              ELSE convert(post.path, o, t)
           /\ IF o = "Ok"
              THEN /\ index' = Append(index, new_post)
                   /\ num_updated' = num_updated + 1
                   /\ pass' = [pass EXCEPT !.converted =
                                  IF dry_run THEN @
                                  ELSE Append(@, new_post.post_url)]
                   /\ Continue
              ELSE /\ Return(SyncError(o))
                   /\ UNCHANGED <<index, all_posts, num_updated, pass>>
    /\ UNCHANGED <<fs_index, fs_toc, blog_path, force, syncs, convert_vars>>

\* sync writing the table of contents and the index whatever the count.
UpdateEnd_always_writes ==
    /\ sync_pc = "update"
    /\ all_posts = <<>>
    /\ index' = Retained(index)
    /\ num_updated' = num_updated + Dropped(index)
    /\ sync_pc' = "write_toc"
    /\ UNCHANGED <<fs_posts, fs_index, fs_toc, clock, blog_path, force,
                   all_posts, pass, syncs, convert_vars, sync_result, last_ok>>

\* The end of update and the test of sync on what it returns.
UpdateEnd ==
    /\ sync_pc = "update"
    /\ all_posts = <<>>
    /\ index' = Retained(index)
    /\ num_updated' = num_updated + Dropped(index)
    /\ IF num_updated' > 0
       THEN /\ sync_pc' = "write_toc"
            /\ UNCHANGED <<sync_result, last_ok>>
       ELSE Return(Updated(num_updated'))
    /\ UNCHANGED <<fs_posts, fs_index, fs_toc, clock, blog_path, force,
                   all_posts, pass, syncs, convert_vars>>

\* How a write of a whole file may end: written, failed before the file was
\* opened, or failed after it was opened and emptied.
WriteOutcomes == {"Ok", "Unopened", "Cut"}

\* write_toc: the index is rendered and written to index.html of the root.
WriteToc(o) ==
    /\ sync_pc = "write_toc"
    /\ IF o = "Ok"
       THEN /\ fs_toc' = Some(render_index(index))
            /\ pass' = [pass EXCEPT !.wrote = @ \cup {"toc"}]
            /\ sync_pc' = "persist"
            /\ UNCHANGED <<sync_result, last_ok>>
       ELSE /\ fs_toc' = IF o = "Cut" THEN Some(<<>>) ELSE fs_toc
            /\ Return(SyncError("WriteTocError"))
            /\ UNCHANGED pass
    /\ UNCHANGED <<fs_posts, fs_index, clock, blog_path, index, force,
                   all_posts, num_updated, syncs, convert_vars>>

\* persist: the index file is opened, which empties it, and the entries are
\* written one by one; with "Cut" the write fails after k of them.
Persist(o, k) ==
    /\ sync_pc = "persist"
    /\ IF o = "Ok"
       THEN /\ k = Len(index)
            /\ fs_index' = Some(persist(index))
            /\ pass' = [pass EXCEPT !.wrote = @ \cup {"index"}]
            /\ Return(Updated(num_updated))
       ELSE /\ IF o = "Cut"
               THEN /\ k < Len(index)
                    /\ fs_index' = Some(SubSeq(persist(index), 1, k))
               ELSE /\ k = 0
                    /\ fs_index' = fs_index
            /\ Return(SyncError("WriteIndexError"))
            /\ UNCHANGED pass
    /\ UNCHANGED <<fs_posts, fs_toc, clock, blog_path, index, force,
                   all_posts, num_updated, syncs, convert_vars>>

\* main has printed the result; the process ends, and its Blog and what
\* the run remembered with it.
Exit ==
    /\ sync_pc = "done"
    /\ sync_pc' = "idle"
    /\ index' = <<>>
    /\ all_posts' = <<>>
    /\ num_updated' = 0
    /\ sync_result' = None
    /\ pass' = NoPass
    /\ UNCHANGED <<fs_posts, fs_index, fs_toc, clock, blog_path, force,
                   last_ok, syncs, convert_vars>>

\* ------------------------------------------------------- the author
\* Blog::init on a directory that has no index file: an empty one is made.
InitBlog ==
    /\ sync_pc = "idle"
    /\ fs_index = None
    /\ fs_index' = Some(<<>>)
    /\ last_ok' = FALSE
    /\ UNCHANGED <<fs_posts, fs_toc, clock, blog_path, index, sync_pc,
                   force, all_posts, num_updated, sync_result, pass, syncs,
                   convert_vars>>

\* The author's change to the post directories, between two commands.
Author(posts) ==
    /\ sync_pc = "idle"
    /\ clock < MaxTime
    /\ clock' = clock + 1
    /\ fs_posts' = posts
    /\ last_ok' = FALSE
    /\ pass' = [pass EXCEPT !.moved_from = None]
    /\ UNCHANGED <<fs_index, fs_toc, blog_path, index, sync_pc, force,
                   all_posts, num_updated, sync_result, syncs, convert_vars>>

\* The whole blog directory is moved to another place, all it holds
\* unchanged.  The blog is moved when a run of sync has just succeeded.
Relocate(path) ==
    /\ sync_pc = "idle"
    /\ last_ok
    /\ path # blog_path
    /\ blog_path' = path
    /\ last_ok' = FALSE
    /\ pass' = [pass EXCEPT !.moved_from = Some(blog_path)]
    /\ UNCHANGED <<fs_posts, fs_index, fs_toc, clock, index, sync_pc, force,
                   all_posts, num_updated, sync_result, syncs, convert_vars>>

\* A post directory is made, with or without index.md in it.
CreatePost(p, md) ==
    /\ ~fs_posts[p].dir
    /\ ~fs_posts[p].file
    /\ Author([fs_posts EXCEPT ![p] = [dir |-> TRUE, file |-> FALSE,
                                       md |-> md,
                                       html |-> FALSE, mtime |-> clock + 1,
                                       md_mtime |->
                                           IF md THEN clock + 1 ELSE 0]])

\* The post is saved again by writing a new file over index.md by rename,
\* which changes the time of the directory.
EditPost(p) ==
    /\ fs_posts[p].dir
    /\ fs_posts[p].md
    /\ Author([fs_posts EXCEPT ![p].mtime = clock + 1,
                                ![p].md_mtime = clock + 1])

\* The post is saved again by writing into index.md where it is: the file
\* gets a new time, the directory keeps its own.
EditInPlace(p) ==
    /\ fs_posts[p].dir
    /\ fs_posts[p].md
    /\ Author([fs_posts EXCEPT ![p].md_mtime = clock + 1])

\* index.md is removed from a post directory.
RemoveMarker(p) ==
    /\ fs_posts[p].dir
    /\ fs_posts[p].md
    /\ Author([fs_posts EXCEPT ![p].md = FALSE, ![p].mtime = clock + 1,
                                ![p].md_mtime = 0])

\* A plain file is put in the blog root.
CreateFile(p) ==
    /\ ~fs_posts[p].dir
    /\ ~fs_posts[p].file
    /\ Author([fs_posts EXCEPT ![p] = PlainFile])

\* An entry of the blog root is removed with all it holds.
RemovePost(p) ==
    /\ fs_posts[p].dir \/ fs_posts[p].file
    /\ Author([fs_posts EXCEPT ![p] = NoDir])

SyncNext ==
    \/ \E args \in SyncArgs : SyncBegin(args)
    \/ UpdateUnchanged
    \/ \E o \in ConvertOutcomes, t \in 0..MaxTime : UpdateChanged(o, t)
    \/ \E o \in ConvertOutcomes, t \in 0..MaxTime : UpdateNew(o, t)
    \/ UpdateEnd
    \/ \E o \in WriteOutcomes : WriteToc(o)
    \/ \E o \in WriteOutcomes, k \in 0..Cardinality(PostNames) : Persist(o, k)
    \/ Exit
    \/ InitBlog
    \/ \E p \in PostNames, md \in BOOLEAN : CreatePost(p, md)
    \/ \E p \in PostNames : EditPost(p)
    \/ \E p \in PostNames : EditInPlace(p)
    \/ \E p \in PostNames : CreateFile(p)
    \/ \E path \in BlogRoots : Relocate(path)
    \/ \E p \in PostNames : RemoveMarker(p)
    \/ \E p \in PostNames : RemovePost(p)

\* The blog and its author; no document is being converted by hand.
SyncInit == Init /\ link_prefix = <<>>

SyncSpec == SyncInit /\ [][SyncNext]_vars

\* --------------------------------------------- writing and reading back
\* An index written by one Blog and read by another, as the test
\* write_read_index does it.  The posts are put into the index directly,
\* so that their titles may hold the characters the file format treats
\* specially.
TitleChars == {"a", Quote, Comma}

\* The longest title put into the index.
MaxTitle == 2

StoredTitles ==
    {None} \cup
    {Some(t) : t \in UNION {[1..k -> TitleChars] : k \in 1..MaxTitle}}

\* An entry as update leaves it: found on disk and checked.
StoredPost(p, t, stored_title) ==
    [path |-> BlogRoot \o <<p>>,
     post_url |-> post_url_from_path(BlogRoot \o <<p>>),
     last_updated |-> t, first_published |-> 0, checked |-> TRUE,
     title |-> stored_title]

StoredIndexes ==
    UNION {{[i \in 1..Len(order) |->
                StoredPost(order[i], times[i], titles[i])] :
              times \in [1..Len(order) -> {0, MaxTime}],
              titles \in [1..Len(order) -> StoredTitles]} :
           order \in UNION {Orderings(S) : S \in SUBSET PostNames}}

IndexInit ==
    /\ ConvertInit
    /\ link_prefix = <<>>
    /\ fs_posts = [p \in PostNames |-> NoDir]
    /\ fs_index = None
    /\ fs_toc = None
    /\ clock = 0
    /\ blog_path = BlogRoot
    /\ index \in StoredIndexes
    /\ sync_pc = "idle"
    /\ force = FALSE
    /\ all_posts = <<>>
    /\ num_updated = 0
    /\ sync_result = None
    /\ pass = NoPass
    /\ last_ok = FALSE
    /\ syncs = 0

\* blog.persist() succeeding.
PersistIndex ==
    /\ sync_pc = "idle"
    /\ fs_index = None
    /\ fs_index' = Some(persist(index))
    /\ UNCHANGED <<fs_posts, fs_toc, clock, blog_path, index, sync_pc, force,
                   all_posts, num_updated, sync_result, pass, last_ok, syncs,
                   convert_vars>>

\* Blog::new and load: the index of the second Blog is pass.loaded.
LoadIndex ==
    /\ sync_pc = "idle"
    /\ fs_index # None
    /\ pass' = [pass EXCEPT !.loaded = load(<<>>, fs_index[1])]
    /\ sync_pc' = "done"
    /\ UNCHANGED <<fs_posts, fs_index, fs_toc, clock, blog_path, index, force,
                   all_posts, num_updated, sync_result, last_ok, syncs,
                   convert_vars>>

IndexNext == PersistIndex \/ LoadIndex

IndexSpec == IndexInit /\ [][IndexNext]_vars

\* ------------------------------------------------- a Blog synced again
\* Blog::sync called on a Blog whose sync has returned: the index it holds
\* is the one that call left.
SyncAgain(args) ==
    /\ sync_pc = "done"
    /\ sync_result # None
    /\ syncs < MaxSyncs
    /\ syncs' = syncs + 1
    /\ force' = force_flag(args)
    /\ num_updated' = 0
    /\ IF fs_index = None
       THEN /\ index' = index
            /\ all_posts' = <<>>
            /\ pass' = NewPass(args)
            /\ Return(SyncError("NoInit"))
       ELSE Scan(args, fs_index[1])
    /\ UNCHANGED <<fs_posts, fs_index, fs_toc, clock, blog_path,
                   convert_vars>>

\* A program that holds one Blog and calls sync on it time after time,
\* while between its runs the author makes, edits and removes posts.
ReuseNext ==
    \/ \E args \in SyncArgs : SyncBegin(args)
    \/ \E args \in SyncArgs : SyncAgain(args)
    \/ UpdateUnchanged
    \/ \E o \in ConvertOutcomes, t \in 0..MaxTime : UpdateChanged(o, t)
    \/ \E o \in ConvertOutcomes, t \in 0..MaxTime : UpdateNew(o, t)
    \/ UpdateEnd
    \/ \E o \in WriteOutcomes, k \in 0..(2 * Cardinality(PostNames)) :
          Persist(o, k)
    \/ \E o \in WriteOutcomes : WriteToc(o)
    \/ Exit
    \/ InitBlog
    \/ \E p \in PostNames, md \in BOOLEAN : CreatePost(p, md)
    \/ \E p \in PostNames : EditPost(p)
    \/ \E p \in PostNames : RemovePost(p)

ReuseSpec == SyncInit /\ [][ReuseNext]_vars

\* ------------------------------------------------------------------ main
\* The exit code of a process that panicked.
PanicCode == 101

\* A command that ends in main without running the sync engine: what it
\* reported, if anything, and the exit code of the process.
Ended(args, reported, code) ==
    /\ sync_pc = "idle"
    /\ sync_pc' = "done"
    /\ pass' = [NoPass EXCEPT !.args = args, !.reported = reported,
                              !.exit = Some(code)]
    /\ last_ok' = FALSE

\* main without a command: the usage is printed to stderr, exit(1).
Usage ==
    /\ Ended(<<>>, Some("usage"), 1)
    /\ UNCHANGED <<fs_posts, fs_index, fs_toc, clock, blog_path, index,
                   force, all_posts, num_updated, sync_result, syncs,
                   convert_vars>>

\* How the convert command may go: too few arguments, the input file not
\* read, the template not made or not valid, the document not converted,
\* the page not rendered, the output file not written, or all well.
ConvertCmdOutcomes ==
    {"TooFewArguments", "ReadInput", "Template", "Markdown", "Render",
     "WriteOutput", "Ok"}

\* main, command convert: a missing argument and the errors convert matches
\* are printed and end in exit(1); reading the input and writing the output
\* are expect()ed, which panics.
ConvertCmd(o) ==
    /\ Ended(IF o = "TooFewArguments" THEN <<"convert", "in">>
                                       ELSE <<"convert", "in", "out">>,
             IF o = "Ok" THEN None ELSE Some(o),
             CASE o = "Ok" -> 0
               [] o \in {"ReadInput", "WriteOutput"} -> PanicCode
               [] OTHER -> 1)
    /\ UNCHANGED <<fs_posts, fs_index, fs_toc, clock, blog_path, index,
                   force, all_posts, num_updated, sync_result, syncs,
                   convert_vars>>

\* How the init command may go: the options not parsed, the core data
\* refused, Blog::init failing to create the index file, to make or
\* validate the templates, or to copy a template, or all well.
InitCmdOutcomes ==
    {"Options", "CoreData", "InitWrite", "InitTemplate", "InitCopy", "Ok"}

\* main, command init: an error of the options or of the core data is
\* printed and ends in exit(1); init() prints the error of Blog::init and
\* returns.  Blog::init creates the index file, truncating it, before it
\* looks at the templates.
InitCmd(o) ==
    /\ Ended(<<"init">>,
             IF o = "Ok" THEN None ELSE Some(o),
             IF o \in {"Options", "CoreData"} THEN 1 ELSE 0)
    /\ fs_index' = IF o \in {"Options", "CoreData", "InitWrite"}
                   THEN fs_index ELSE Some(<<>>)
    /\ UNCHANGED <<fs_posts, fs_toc, clock, blog_path, index, force,
                   all_posts, num_updated, sync_result, syncs, convert_vars>>

\* main, a command it does not know: a message on stderr, and main returns.
UnknownCmd ==
    /\ Ended(<<"publish">>, Some("I don't recognise this command"), 0)
    /\ UNCHANGED <<fs_posts, fs_index, fs_toc, clock, blog_path, index,
                   force, all_posts, num_updated, sync_result, syncs,
                   convert_vars>>

\* main's sync() once Blog::sync has returned: the number of posts is
\* printed, or the error is printed and the process ends in exit(1).
SyncCmdEnd ==
    /\ sync_pc = "done"
    /\ sync_result # None
    /\ pass.exit = None
    /\ pass' = [pass EXCEPT
                   !.reported = IF sync_result[1].ok THEN None
                                ELSE Some(sync_result[1].err),
                   !.exit = Some(IF sync_result[1].ok THEN 0 ELSE 1)]
    /\ UNCHANGED <<fs_posts, fs_index, fs_toc, clock, blog_path, index,
                   sync_pc, force, all_posts, num_updated, sync_result,
                   last_ok, syncs, convert_vars>>

\* The process ends once its exit code is known.
MainExit ==
    /\ pass.exit # None
    /\ Exit

\* The commands of main run one after another in a blog whose author makes
\* and edits posts.
MainNext ==
    \/ Usage
    \/ \E o \in ConvertCmdOutcomes : ConvertCmd(o)
    \/ \E o \in InitCmdOutcomes : InitCmd(o)
    \/ UnknownCmd
    \/ \E args \in SyncArgs : SyncBegin(args)
    \/ UpdateUnchanged
    \/ \E o \in ConvertOutcomes, t \in 0..MaxTime : UpdateChanged(o, t)
    \/ \E o \in ConvertOutcomes, t \in 0..MaxTime : UpdateNew(o, t)
    \/ UpdateEnd
    \/ \E o \in WriteOutcomes : WriteToc(o)
    \/ \E o \in WriteOutcomes, k \in 0..Cardinality(PostNames) : Persist(o, k)
    \/ SyncCmdEnd
    \/ MainExit
    \/ \E p \in PostNames, md \in BOOLEAN : CreatePost(p, md)
    \/ \E p \in PostNames : EditPost(p)

MainSpec == SyncInit /\ [][MainNext]_vars

\* ================================================================ claims

\* -------------------------------------------------------------- helpers
\* The last turn pulled an event from the wrapped parser.
Pulls == parser'.pulled = parser.pulled + 1

\* The next turn serves the remaining text, which begins with c.
Reaches(c) ==
    /\ pc = "loop"
    /\ remaining_events = <<>>
    /\ Len(remaining_text) > 0
    /\ Head(remaining_text) = c

\* The conversion has failed with error x, which next() yielded.
FailsWith(x) ==
    /\ item = Some(Err(x))
    /\ pc = "done"
    /\ result = Some(Failed(x))

\* The input ended: next() returned None and html_from_markdown returned.
Finished == pc = "done" /\ item = None

\* ------------------------------------------------------------------- C1
\* C1: when the input ends while a sidenote is still open, html_from_markdown
\* fails with the NotMatched error instead of returning a body.
C1_UnclosedAtEndFails ==
    (Finished /\ in_sidenote_block) =>
        (result # None /\ ~result[1].ok /\ result[1].err = "NotMatched")

\* ------------------------------------------------------------------- C2
\* C2: when the transformer reaches a `}` while no sidenote is open, the next
\* output is the NotMatched error, in_sidenote_block stays false and the
\* conversion fails.
C2_CloseWhileNotOpen ==
    [][(Reaches("}") /\ ~in_sidenote_block) =>
         (FailsWith("NotMatched")' /\ ~in_sidenote_block')]_vars

\* A `}` was reached with no sidenote open, and the conversion has failed.
C2_Witness ==
    /\ FailsWith("NotMatched")
    /\ ~in_sidenote_block
    /\ next_event # None /\ next_event[1].k = "Text"
    /\ "}" \in {fragment.text[i] : i \in 1..Len(fragment.text)}

\* ------------------------------------------------------------------- C3
\* C3: when the transformer reaches a `{` while a sidenote is already open,
\* the next output is the Nested error and the conversion fails, whether the
\* sidenote was opened in the same text fragment or in an earlier one.
C3_OpenWhileOpen ==
    [][(Reaches("{") /\ in_sidenote_block) => FailsWith("Nested")']_vars

\* The second `{` is in another paragraph than the first: the sidenote was
\* open when the scan of the failing fragment began.
C3_Witness ==
    /\ FailsWith("Nested")
    /\ fragment.open
    /\ \E i \in 1..Len(article) : article[i] = InlineHtml("<br /><br />\n")

\* Both `{` are in the same text fragment.
C3_WitnessSameFragment ==
    /\ FailsWith("Nested")
    /\ ~fragment.open

\* ------------------------------------------------------------------- C4
\* The characters an emitted event stands for: the sidenote markup read back
\* as its delimiter, a Text event as its text.
Piece(e) ==
    IF e = InlineHtml("<span>") THEN <<"{">>
    ELSE IF e = InlineHtml("</span>") THEN <<"}">>
    ELSE IF e.k = "Text" THEN e.s
    ELSE <<>>

RECURSIVE Recon(_)
Recon(events) ==
    IF events = <<>> THEN <<>>
    ELSE Piece(Head(events)) \o Recon(Tail(events))

\* The delimiters of a text, in order.
DelimsOf(text) == SelectSeq(text, LAMBDA c : c \in Delims)

\* The braces of a text are balanced and not nested: `{`, `}`, `{`, `}`, ...
Balanced(text) ==
    /\ Len(DelimsOf(text)) % 2 = 0
    /\ \A i \in 1..Len(DelimsOf(text)) :
          DelimsOf(text)[i] = IF i % 2 = 1 THEN "{" ELSE "}"

\* The event pulled last is a text fragment outside code: it is under scan.
Scanning ==
    /\ next_event # None
    /\ next_event[1] = Text(fragment.text)
    /\ ~in_code_block

\* The events emitted for the fragment under scan.
Emitted == SubSeq(article, fragment.at + 1, Len(article))

\* C4: the events emitted for a text fragment outside code, read back with
\* the markup as delimiters, followed by the text not yet scanned, are the
\* fragment itself; a fragment whose braces are balanced and not nested
\* (scanned from a state with no sidenote open) is emitted without an error,
\* so once it is scanned to its end the events read back are exactly it.
C4_RoundTrip ==
    Scanning =>
        /\ item[1].ok => Recon(Emitted) \o remaining_text = fragment.text
        /\ (Balanced(fragment.text) /\ ~fragment.open) => item[1].ok

\* A fragment with a sidenote and text in it has been scanned to its end.
C4_Witness ==
    /\ Scanning
    /\ Balanced(fragment.text) /\ ~fragment.open
    /\ Len(DelimsOf(fragment.text)) = 2
    /\ Len(fragment.text) = 3
    /\ remaining_text = <<>>
    /\ Recon(Emitted) = fragment.text

\* ------------------------------------------------------------------- C5
\* C5: a Text event received while in_code_block is true is returned as it
\* came, with no error, and leaves in_sidenote_block and the remaining text
\* as they were.
C5_TextInCodeUnchanged ==
    [][(Pulls /\ in_code_block /\ next_event'[1].k = "Text") =>
         /\ item' = Some(Ok(next_event'[1]))
         /\ article' = Append(article, next_event'[1])
         /\ in_sidenote_block' = in_sidenote_block
         /\ remaining_text' = remaining_text
         /\ pc' = "loop"]_vars

\* A text with a delimiter in it came inside code and was returned whole.
C5_Witness ==
    /\ in_code_block
    /\ next_event # None /\ next_event[1].k = "Text"
    /\ \E i \in 1..Len(next_event[1].s) : next_event[1].s[i] \in Delims
    /\ item = Some(Ok(next_event[1]))
    /\ remaining_text = <<>>

\* ------------------------------------------------------------------- C6
\* C6: a code span start or a code block start that comes while a sidenote is
\* open yields the NotMatched error, does not set in_code_block and makes the
\* conversion fail.
C6_CodeInSidenoteFails ==
    [][(Pulls /\ in_sidenote_block /\ next_event'[1].k = "Start"
              /\ next_event'[1].tag \in {"Code", "CodeBlock"}) =>
         /\ FailsWith("NotMatched")'
         /\ in_code_block' = in_code_block
         /\ ~in_code_block']_vars

\* A code start came while a sidenote was open, and the conversion failed.
C6_Witness ==
    /\ FailsWith("NotMatched")
    /\ in_sidenote_block
    /\ next_event # None /\ next_event[1].k = "Start"
    /\ next_event[1].tag \in {"Code", "CodeBlock"}

\* ------------------------------------------------------------------- C7
LineBreak == InlineHtml("<br /><br />\n")

\* The event next() yielded in this turn is a paragraph tag.
YieldsParagraphTag ==
    /\ item' # None /\ item'[1].ok
    /\ item'[1].e.k \in {"Start", "End"}
    /\ item'[1].e.tag = "Paragraph"

\* C7: while a sidenote is open no paragraph tag is emitted: a paragraph
\* start is replaced by the line break markup and a paragraph end by an empty
\* text event, and the sidenote stays open; text that follows the closing `}`
\* is emitted after the sidenote's end markup, with no sidenote open.  With
\* no sidenote open, paragraph tags pass through unchanged.
C7_ParagraphsInSidenote ==
    [][/\ (pc = "loop" /\ in_sidenote_block /\ item' # item) =>
              ~YieldsParagraphTag
       /\ (Pulls /\ next_event'[1] = Start("Paragraph", <<>>, <<>>)) =>
              /\ item' = Some(Ok(IF in_sidenote_block THEN LineBreak
                                 ELSE next_event'[1]))
              /\ in_sidenote_block' = in_sidenote_block
       /\ (Pulls /\ next_event'[1] = End("Paragraph", <<>>, <<>>)) =>
              /\ item' = Some(Ok(IF in_sidenote_block THEN Text(<<>>)
                                 ELSE next_event'[1]))
              /\ in_sidenote_block' = in_sidenote_block
       /\ (pc = "loop" /\ remaining_events = <<>> /\ Len(remaining_text) > 0
             /\ Head(remaining_text) \notin Delims
             /\ article[Len(article)] = InlineHtml("</span>")) =>
              /\ ~in_sidenote_block /\ ~in_sidenote_block'
              /\ item'[1].ok /\ item'[1].e.k = "Text" /\ item'[1].e.s # <<>>
              /\ article' = Append(article, item'[1].e)]_vars

\* A sidenote opened in one paragraph was closed in the next one, with a line
\* break in place of the paragraph start, and the text after its `}` came out
\* after the end markup.
C7_Witness ==
    /\ Len(article) >= 2
    /\ article[Len(article)].k = "Text" /\ article[Len(article)].s # <<>>
    /\ article[Len(article) - 1] = InlineHtml("</span>")
    /\ \E i, j \in 1..Len(article) :
          /\ i < j
          /\ article[i] = InlineHtml("<span>")
          /\ article[j] = LineBreak
    /\ ~in_sidenote_block

\* ------------------------------------------------------------------- C8
\* C8: after the transformer has been driven to the end of a document that
\* has a level-1 header with non-empty text, the caller's title is the text
\* of that header (the Text events received between its start and its end).
C8_TitleIsHeaderText ==
    (Finished /\ header_texts # <<>> /\ header_texts[1] # <<>>) =>
        title = Some(header_texts[1])

\* ------------------------------------------------------------------- C9
\* C9: in a document with two or more level-1 headers, the title after the
\* conversion is the text of the first one.
C9_FirstHeaderWins ==
    (Finished /\ Len(header_texts) >= 2 /\ header_texts[1] # <<>>
              /\ header_texts[2] # <<>>) =>
        /\ result # None /\ result[1].ok
        /\ result[1].title = Some(header_texts[1])

\* ------------------------------------------------------------------ C10
\* C10: html_from_markdown returns no title for a document with no level-1
\* header and for a document whose level-1 headers have no text, and it never
\* returns an empty title.
C10_NoEmptyTitle ==
    (pc = "done" /\ result # None /\ result[1].ok) =>
        /\ result[1].title # Some(<<>>)
        /\ (\A i \in 1..Len(header_texts) : header_texts[i] = <<>>) =>
              result[1].title = None

\* A document whose level-1 header is empty has been converted.
C10_Witness ==
    /\ pc = "done" /\ result # None /\ result[1].ok
    /\ header_texts = << <<>> >>
    /\ result[1].title = None

\* A document with no level-1 header has been converted.
C10_WitnessNoHeader ==
    /\ pc = "done" /\ result # None /\ result[1].ok
    /\ header_texts = <<>>
    /\ Len(article) > 2
    /\ result[1].title = None

\* ------------------------------------------------------------------ C11
\* The destination has a scheme separator in it.
HasScheme(url) ==
    \E i \in 1..Len(url) :
        /\ i + 2 <= Len(url)
        /\ url[i] = ":" /\ url[i + 1] = "/" /\ url[i + 2] = "/"

\* The destination begins with the path root.
IsRooted(url) == url # <<>> /\ Head(url) = "/"

\* C11: for every image start tag and link start tag the emitted destination
\* is link_prefix followed by the original one when the original neither
\* holds "://" nor begins with `/`, and the original one otherwise; the tag
\* and its title are unchanged.
C11_RelativeLinksPrefixed ==
    [][(Pulls /\ next_event'[1].k = "Start"
              /\ next_event'[1].tag \in LinkTags) =>
         LET given == next_event'[1] IN
         /\ item' # None /\ item'[1].ok
         /\ item'[1].e.k = "Start"
         /\ item'[1].e.tag = given.tag
         /\ item'[1].e.title = given.title
         /\ item'[1].e.s = IF ~HasScheme(given.s) /\ ~IsRooted(given.s)
                           THEN link_prefix \o given.s ELSE given.s
         /\ article' = Append(article, item'[1].e)]_vars

\* A relative image destination came out with the prefix before it, and
\* with its title.
C11_Witness ==
    /\ next_event = Some(Start("Image", <<"r">>, <<"t">>))
    /\ item = Some(Ok(Start("Image", <<"p", "/", "r">>, <<"t">>)))

\* A root-relative link destination came out unchanged under a prefix.
C11_WitnessRooted ==
    /\ link_prefix = <<"p", "/">>
    /\ next_event = Some(Start("Link", <<"/", "r">>, <<>>))
    /\ item = Some(Ok(Start("Link", <<"/", "r">>, <<>>)))

\* ------------------------------------------------------------------ C12
\* C12: when the transformer yields an error, html_from_markdown returns that
\* error and nothing else (no body, no title), and processes no later event.
C12_ErrorAbortsConversion ==
    [][/\ (item' # None /\ ~item'[1].ok) =>
              /\ pc' = "done"
              /\ result' = Some([ok |-> FALSE, html |-> <<>>,
                                 title |-> None, err |-> item'[1].err])
       /\ pc # "done"]_vars

\* An error came after part of the body had been rendered.
C12_Witness ==
    /\ item # None /\ ~item[1].ok
    /\ pc = "done"
    /\ Len(article) >= 4
    /\ header_texts # <<>>
    /\ result # None /\ ~result[1].ok /\ result[1].html = <<>>

\* ------------------------------------------------------------------ C13
\* The run of sync has returned.
Done == sync_pc = "done" /\ sync_result # None

Succeeded == Done /\ sync_result[1].ok

\* update has returned its count to sync.
UpdateReturned == Succeeded \/ sync_pc \in {"write_toc", "persist"}

UrlsOf(seq) == {seq[i].post_url : i \in 1..Len(seq)}

FoundUrls == {post_url_from_path(pass.discovered[i].path) :
                 i \in 1..Len(pass.discovered)}

\* The found posts that the loaded index does not hold.
NewPosts ==
    {i \in 1..Len(pass.discovered) :
        post_url_from_path(pass.discovered[i].path) \notin UrlsOf(pass.loaded)}

\* The found posts the loaded index holds with an older time, or if not
\* newer, with a time that is not older.
FoundAgain(i, newer) ==
    \E j \in 1..Len(pass.loaded) :
        /\ pass.loaded[j].post_url =
              post_url_from_path(pass.discovered[i].path)
        /\ newer = (pass.loaded[j].last_updated <
                        pass.discovered[i].last_updated)

ChangedPosts == {i \in 1..Len(pass.discovered) : FoundAgain(i, TRUE)}

UnchangedPosts == {i \in 1..Len(pass.discovered) : FoundAgain(i, FALSE)}

\* The loaded entries that were not found.
RemovedEntries ==
    {j \in 1..Len(pass.loaded) : pass.loaded[j].post_url \notin FoundUrls}

SameRecord(a, b) ==
    /\ a.post_url = b.post_url
    /\ a.last_updated = b.last_updated
    /\ a.first_published = b.first_published
    /\ a.title = b.title

\* C13: the number a pass returns is the number of found posts absent from
\* the loaded index, plus the found posts whose time is strictly newer than
\* the recorded last_updated, plus the loaded entries that were not found;
\* a found post whose time is not newer is not converted and keeps its
\* last_updated, first_published and title.
C13_UpdateCount ==
    UpdateReturned =>
        /\ num_updated = Cardinality(NewPosts) + Cardinality(ChangedPosts)
                            + Cardinality(RemovedEntries)
        /\ \A i \in UnchangedPosts :
              LET url == post_url_from_path(pass.discovered[i].path) IN
              /\ \A k \in 1..Len(pass.converted) : pass.converted[k] # url
              /\ \E j \in 1..Len(pass.loaded), k \in 1..Len(index) :
                    /\ pass.loaded[j].post_url = url
                    /\ SameRecord(pass.loaded[j], index[k])

\* One pass found a new post and a changed one and counted two.
C13_Witness ==
    /\ Succeeded
    /\ NewPosts # {}
    /\ ChangedPosts # {}
    /\ sync_result[1].n = 2

\* One pass found a post unchanged and another one gone, and counted one.
C13_WitnessRemoved ==
    /\ Succeeded
    /\ UnchangedPosts # {}
    /\ RemovedEntries # {}
    /\ sync_result[1].n = 1

\* ------------------------------------------------------------------ C14
\* The urls of the post directories that hold index.md.
DiscoveredUrls == {post_url_from_path(blog_path \o <<p>>) : p \in Discovered}

\* C14: after a pass that succeeds the index holds exactly one entry for
\* each subdirectory of the blog root that holds index.md, and none for any
\* other url.
C14_IndexIsDiscovered ==
    UpdateReturned =>
        /\ UrlsOf(index) = DiscoveredUrls
        /\ UrlsOf(index) = FoundUrls
        /\ \A i, j \in 1..Len(index) :
              index[i].post_url = index[j].post_url => i = j

\* An entry was dropped because index.md left its directory, while another
\* post stayed.
C14_Witness ==
    /\ Succeeded
    /\ index # <<>>
    /\ \E p \in PostNames :
          /\ fs_posts[p].dir
          /\ ~fs_posts[p].md
          /\ post_url_from_path(blog_path \o <<p>>) \in UrlsOf(pass.loaded)
          /\ post_url_from_path(blog_path \o <<p>>) \notin UrlsOf(index)

\* An entry was dropped because its directory is gone.
C14_WitnessNoDir ==
    /\ Succeeded
    /\ \E p \in PostNames :
          /\ ~fs_posts[p].dir
          /\ post_url_from_path(blog_path \o <<p>>) \in UrlsOf(pass.loaded)
          /\ post_url_from_path(blog_path \o <<p>>) \notin UrlsOf(index)

\* ------------------------------------------------------------------ C15
\* C15: a run of sync that comes right after a run that succeeded, with
\* nothing but that run's own writes in between, returns 0, converts no
\* post and leaves the index file and the table of contents as they were.
C15_SyncIdempotent ==
    (Succeeded /\ pass.follows_ok) =>
        /\ sync_result[1].n = 0
        /\ pass.converted = <<>>
        /\ fs_index = pass.fs_index
        /\ fs_toc = pass.fs_toc

\* ------------------------------------------------------------------ C16
\* C16: a run without the force flag that counts no update writes neither
\* the table of contents nor the index file and returns 0; one that counts
\* some writes both.
C16_DirtyCheck ==
    (Succeeded /\ ~force) =>
        /\ sync_result[1].n = num_updated
        /\ num_updated = 0 =>
              /\ pass.wrote = {}
              /\ fs_toc = pass.fs_toc
              /\ fs_index = pass.fs_index
        /\ num_updated > 0 =>
              /\ pass.wrote = {"toc", "index"}
              /\ fs_toc = Some(render_index(index))
              /\ fs_index = Some(persist(index))

\* A run found nothing to do and left the files of an earlier run alone.
C16_Witness ==
    /\ Succeeded
    /\ ~force
    /\ num_updated = 0
    /\ pass.fs_toc # None
    /\ pass.fs_index # None /\ pass.fs_index[1] # <<>>
    /\ pass.wrote = {}

\* A run counted updates and wrote both files.
C16_WitnessWrites ==
    /\ Succeeded
    /\ ~force
    /\ num_updated > 0
    /\ pass.wrote = {"toc", "index"}

\* ------------------------------------------------------------------ C17
\* The command line asks to force: sync -f or sync --force.
AsksForce == Len(pass.args) = 2 /\ pass.args[2] \in {"-f", "--force"}

\* C17: a run with the force flag that counts no update still writes the
\* table of contents and the index file.
C17_ForceWrites ==
    (Succeeded /\ AsksForce /\ num_updated = 0) =>
        /\ pass.wrote = {"toc", "index"}
        /\ fs_toc = Some(render_index(index))
        /\ fs_index = Some(persist(index))

\* ------------------------------------------------------------------ C18
\* C18: a run on a directory without an index file returns NoInit; it scans
\* no directory, converts no post and writes neither file.
C18_NoInit ==
    (Done /\ pass.fs_index = None) =>
        /\ sync_result = Some(SyncError("NoInit"))
        /\ ~pass.scanned
        /\ pass.discovered = <<>>
        /\ pass.converted = <<>>
        /\ pass.wrote = {}
        /\ fs_index = None
        /\ fs_toc = pass.fs_toc
        /\ \A p \in PostNames : ~fs_posts[p].html

\* The run was refused although a post is there to be converted.
C18_Witness ==
    /\ Done
    /\ pass.fs_index = None
    /\ sync_result = Some(SyncError("NoInit"))
    /\ Discovered # {}

\* ------------------------------------------------------------------ C19
\* C19: a run in which a step fails returns an error and leaves the index
\* file as it was before the run; the posts after the one that failed are
\* not converted.
C19_FailureKeepsIndex ==
    (Done /\ ~sync_result[1].ok) =>
        /\ fs_index = pass.fs_index
        /\ \A i \in 2..Len(all_posts), k \in 1..Len(pass.converted) :
              pass.converted[k] # post_url_from_path(all_posts[i].path)

\* ------------------------------------------------------------------ C20
\* The rows of a file; none when the file is not there.
Rows(file) == IF file = None THEN <<>> ELSE file[1]

\* The records the lines of an index file stand for.
Records(file) == [i \in 1..Len(Rows(file)) |-> Deserialized(Rows(file)[i])]

\* C20: between the runs of sync, whether they failed or not, the posts
\* of the written table of contents are those of the index file.
C20_TocMatchesIndex ==
    sync_pc \in {"idle", "done"} =>
        UrlsOf(Rows(fs_toc)) = UrlsOf(Records(fs_index))

C22_NewPostEntry ==
    [][(/\ sync_pc = "update"
        /\ all_posts # <<>>
        /\ post_url_from_path(Head(all_posts).path) \notin UrlsOf(pass.loaded)
        /\ sync_pc' = "update")
       => LET post == Head(all_posts)
              name == post.path[Len(post.path)]
              last == index'[Len(index')]
          IN  /\ Len(index') = Len(index) + 1
              /\ SubSeq(index', 1, Len(index)) = index
              /\ last.post_url = post_url_from_path(post.path)
              /\ last.path = post.path
              /\ last.first_published = clock
              /\ last.last_updated = clock
              /\ last.checked
              /\ num_updated' = num_updated + 1
              /\ pass'.converted = Append(pass.converted, last.post_url)
              /\ fs_posts'[name].html]_vars

\* A new post was appended after an entry of the loaded index, dated later
\* than its directory.
C22_Witness ==
    /\ sync_pc = "update"
    /\ Len(index) = 2
    /\ index[1].post_url \in UrlsOf(pass.loaded)
    /\ index[2].post_url \notin UrlsOf(pass.loaded)
    /\ index[2].first_published = index[2].last_updated
    /\ \E i \in 1..Len(pass.discovered) :
          /\ post_url_from_path(pass.discovered[i].path) = index[2].post_url
          /\ pass.discovered[i].last_updated < index[2].last_updated
    /\ pass.converted # <<>>
    /\ pass.converted[Len(pass.converted)] = index[2].post_url

\* ------------------------------------------------------------------ C23
UrlSeq(seq) == [i \in 1..Len(seq) |-> seq[i].post_url]

\* The urls of the loaded entries that were found, in the order of the
\* loaded index, then those of the new posts in the order they were found.
ExpectedOrder ==
    SelectSeq(UrlSeq(pass.loaded), LAMBDA u : u \in FoundUrls)
    \o SelectSeq([i \in 1..Len(pass.discovered) |->
                     post_url_from_path(pass.discovered[i].path)],
                 LAMBDA u : u \notin UrlsOf(pass.loaded))

\* C23: a pass keeps the order of the index: retained entries keep their
\* relative order, removed ones leave no gap, new posts follow in the order
\* they were found, and the table of contents and the index file list the
\* posts in that order.
C23_OrderKept ==
    UpdateReturned =>
        /\ UrlSeq(index) = ExpectedOrder
        /\ (Succeeded /\ num_updated > 0) =>
              /\ UrlSeq(Rows(fs_toc)) = ExpectedOrder
              /\ UrlSeq(Records(fs_index)) = ExpectedOrder

\* Two posts were written in the order of the loaded index, which is neither
\* the order they were found in nor newest first.
C23_Witness ==
    /\ Succeeded
    /\ num_updated > 0
    /\ Len(pass.loaded) = 2
    /\ Len(Rows(fs_toc)) = 2
    /\ Len(pass.discovered) = 2
    /\ post_url_from_path(pass.discovered[1].path) = fs_toc[1][2].post_url
    /\ fs_toc[1][1].last_updated < fs_toc[1][2].last_updated
    /\ UrlSeq(fs_toc[1]) = UrlSeq(pass.loaded)

\* A removed entry left no gap and a new post took the last place.
C23_WitnessAppended ==
    /\ Succeeded
    /\ Len(pass.loaded) = 1
    /\ RemovedEntries = {1}
    /\ NewPosts # {}
    /\ Len(Rows(fs_index)) = 1

\* ------------------------------------------------------------------ C24
\* C24: when index.md of an indexed post has a time newer than the recorded
\* last_updated, the next pass takes the post for changed: last_updated
\* becomes the newer time, the post is converted again and counts as one
\* update.
C24_SourceEditDetected ==
    UpdateReturned =>
        \A i \in 1..Len(pass.discovered), j \in 1..Len(pass.loaded) :
            LET post == pass.discovered[i]
                name == post.path[Len(post.path)]
            IN  (/\ pass.loaded[j].post_url = post_url_from_path(post.path)
                 /\ pass.loaded[j].last_updated < fs_posts[name].md_mtime)
                => /\ i \in ChangedPosts
                   /\ \E k \in 1..Len(pass.converted) :
                         pass.converted[k] = pass.loaded[j].post_url
                   /\ \E k \in 1..Len(index) :
                         /\ index[k].post_url = pass.loaded[j].post_url
                         /\ index[k].last_updated = fs_posts[name].md_mtime

\* ------------------------------------------------------------------ C25
\* The subdirectories of the blog root that hold index.md.
MarkedDirs == {p \in PostNames : fs_posts[p].dir /\ fs_posts[p].md}

C25_WitnessUnmarked ==
    /\ Succeeded
    /\ \E p \in PostNames :
          /\ fs_posts[p].dir
          /\ ~fs_posts[p].md
          /\ post_url_from_path(blog_path \o <<p>>) \notin UrlsOf(pass.loaded)
    /\ Len(pass.discovered) = 1
    /\ Len(index) = 1

\* ------------------------------------------------------------------ C26
\* No post directory is newer than the entry the loaded index holds under
\* its name.
NothingNewer ==
    \A p \in MarkedDirs, j \in 1..Len(pass.loaded) :
        pass.loaded[j].post_url[4] = p =>
            ~(pass.loaded[j].last_updated < fs_posts[p].mtime)

MovedKeepingName ==
    /\ pass.moved_from # None
    /\ pass.moved_from[1] # blog_path
    /\ pass.moved_from[1][Len(pass.moved_from[1])] = blog_path[Len(blog_path)]

C27_RoundTrip ==
    sync_pc = "done" /\ fs_index = Some(persist(index)) =>
        /\ Len(pass.loaded) = Len(index)
        /\ \A i \in 1..Len(index) :
              /\ SameRecord(pass.loaded[i], index[i])
              /\ pass.loaded[i].path = <<>>
              /\ pass.loaded[i].checked = FALSE

\* Two posts were read back, one without a title and one whose title holds
\* a quote and a comma; both had a path and were checked when written.
C27_Witness ==
    /\ sync_pc = "done"
    /\ fs_index = Some(persist(index))
    /\ Len(pass.loaded) = 2
    /\ pass.loaded[1].title = None
    /\ pass.loaded[2].title = Some(<<Quote, Comma>>)
    /\ pass.loaded[1].last_updated # pass.loaded[1].first_published
    /\ index[1].checked
    /\ index[1].path # <<>>

\* ------------------------------------------------------------------ C28
\* C28: every command ends with exit code 0 exactly when it succeeded and
\* with exit code 1 whenever it reported an error, a failing init and a
\* command main does not know included.
C28_ExitCodes ==
    pass.exit # None =>
        /\ pass.exit[1] = 0 <=> pass.reported = None
        /\ pass.reported # None => pass.exit[1] = 1

\* ------------------------------------------------------------------ C29
\* The article holds the event e.
InArticle(e) == \E i \in 1..Len(article) : article[i] = e

\* C29: in_sidenote_block and in_code_block are never both true; a sidenote
\* opens only while in_code_block is false and a code region is entered
\* only while in_sidenote_block is false.
C29_NeverBoth ==
    [][/\ ~(in_sidenote_block /\ in_code_block)
       /\ ~(in_sidenote_block' /\ in_code_block')
       /\ (~in_sidenote_block /\ in_sidenote_block') => ~in_code_block
       /\ (~in_code_block /\ in_code_block') => ~in_sidenote_block]_vars

\* A code region is open in a document in which a sidenote was opened and
\* closed before.
C29_Witness ==
    /\ in_code_block
    /\ ~in_sidenote_block
    /\ InArticle(InlineHtml("<span>"))
    /\ InArticle(InlineHtml("</span>"))

\* A sidenote is open in a document in which a code span was opened and
\* closed before.
C29_WitnessSidenote ==
    /\ in_sidenote_block
    /\ ~in_code_block
    /\ InArticle(Start("Code", <<>>, <<>>))
    /\ InArticle(End("Code", <<>>, <<>>))

\* ------------------------------------------------------------------ C30
\* The wrapped parser gives the end tag of a code span or of a code block.
PullsCodeEnd ==
    /\ Pulls
    /\ next_event'[1].k = "End"
    /\ next_event'[1].tag \in {"Code", "CodeBlock"}

\* C30: the end tag of a code span and the end tag of a code block are
\* passed on and clear in_code_block, which their start tags set; a text
\* fragment that comes while in_code_block is false, after a code region
\* has closed included, is scanned: it is emitted up to its first
\* delimiter and the rest is kept to be served.
C30_CodeEndClears ==
    [][/\ PullsCodeEnd =>
            /\ in_code_block
            /\ ~in_code_block'
            /\ item' = Some(Ok(next_event'[1]))
       /\ (Pulls /\ next_event'[1].k = "Start" /\ item'[1].ok
                 /\ next_event'[1].tag \in {"Code", "CodeBlock"}) =>
            in_code_block'
       /\ (Pulls /\ next_event'[1].k = "Text" /\ ~in_code_block) =>
            LET t == next_event'[1].s
                m == FirstDelim(t)
            IN  /\ item' = Some(Ok(Text(IF m = 0 THEN t
                                        ELSE SubSeq(t, 1, m - 1))))
                /\ remaining_text' = IF m = 0 THEN <<>>
                                     ELSE SubSeq(t, m, Len(t))]_vars

\* In one paragraph a code span was closed and a sidenote has opened after
\* it.
C30_Witness ==
    /\ in_sidenote_block
    /\ Len(article) >= 5
    /\ article[2] = Start("Paragraph", <<>>, <<>>)
    /\ article[3] = Start("Code", <<>>, <<>>)
    /\ article[4] = End("Code", <<>>, <<>>)
    /\ article[Len(article)] = InlineHtml("<span>")
    /\ Len(parser.open) = 1

\* A code block was closed and a sidenote has opened in the paragraph after
\* it.
C30_WitnessBlock ==
    /\ in_sidenote_block
    /\ InArticle(End("CodeBlock", <<>>, <<>>))
    /\ article[Len(article)] = InlineHtml("<span>")

\* ------------------------------------------------------------------ C31
SidenoteStart == InlineHtml("<span>")

SidenoteEnd == InlineHtml("</span>")

\* How many of the events are e.
RECURSIVE Count(_, _)
Count(events, e) ==
    IF events = <<>> THEN 0
    ELSE (IF Head(events) = e THEN 1 ELSE 0) + Count(Tail(events), e)

\* The sidenotes the events leave open.
Balance(events) == Count(events, SidenoteStart) - Count(events, SidenoteEnd)

\* This turn of next() takes a delimiter off the remaining text and yields
\* no error.
ConsumesDelimiter ==
    /\ pc = "loop"
    /\ remaining_events = <<>>
    /\ remaining_text # <<>>
    /\ Head(remaining_text) \in Delims
    /\ item' # None /\ item'[1].ok
    /\ remaining_text' = Tail(remaining_text)

\* C31: the sidenote markup alternates: every prefix of the emitted events
\* has as many starts as ends or one start more, the emitted events as a
\* whole have one start more exactly when in_sidenote_block is true, and a
\* turn emits a markup event, and one only, exactly when it consumes a
\* delimiter.
C31_MarkupAlternates ==
    [][/\ \A k \in 0..Len(article') :
             Balance(SubSeq(article', 1, k)) \in {0, 1}
       /\ Balance(article') = IF in_sidenote_block' THEN 1 ELSE 0
       /\ LET emitted == SubSeq(article', Len(article) + 1, Len(article'))
              markups == Count(emitted, SidenoteStart)
                         + Count(emitted, SidenoteEnd)
          IN  markups = IF ConsumesDelimiter THEN 1 ELSE 0]_vars

\* A second sidenote has opened after the first was closed.
C31_Witness ==
    /\ in_sidenote_block
    /\ Count(article, SidenoteStart) = 2
    /\ Count(article, SidenoteEnd) = 1

\* ------------------------------------------------------------------ C32
\* The remaining text is not empty: next() serves it.
ServesRemainder ==
    /\ pc = "loop"
    /\ remaining_events = <<>>
    /\ Len(remaining_text) > 0

\* C32: a call of next() made while the remaining text is not empty pulls
\* no event from the wrapped parser and leaves the remaining text strictly
\* shorter; every call either pulls an event of the input, shortens the
\* remaining text or ends the conversion, and over a finite input the
\* calls come to an end, with None or with an error.
C32_NextTerminates ==
    /\ [][/\ ServesRemainder =>
               /\ parser' = parser
               /\ next_event' = next_event
               /\ Len(remaining_text') < Len(remaining_text)
          /\ \/ parser'.pulled = parser.pulled + 1
             \/ Len(remaining_text') < Len(remaining_text)
             \/ pc' = "done"]_vars
    /\ <>(pc = "done")

\* The remaining text was served down to nothing, a piece at a time, and
\* the conversion has ended with the input.
C32_Witness ==
    /\ Finished
    /\ remaining_text = <<>>
    /\ Count(article, SidenoteStart) = 1
    /\ Count(article, SidenoteEnd) = 1
    /\ \E i \in 1..Len(article) :
          /\ article[i].k = "Text" /\ article[i].s # <<>>
          /\ i > 1 /\ article[i - 1] = SidenoteStart

\* ------------------------------------------------------------------ C33
\* The paragraph tags among the events, in order.
ParagraphTags(events) ==
    SelectSeq(events, LAMBDA e : e.k \in {"Start", "End"}
                                 /\ e.tag = "Paragraph")

\* Starts and ends take turns, a start first.
Alternate(tags) ==
    \A i \in 1..Len(tags) : tags[i].k = IF i % 2 = 1 THEN "Start" ELSE "End"

\* C33: the paragraph tags the transformer emits alternate, a start first:
\* no start while an emitted paragraph is open, no end without an open one;
\* and when the document has ended with every sidenote closed, every
\* emitted start has its end.
C33_ParagraphTagsAlternate ==
    /\ Alternate(ParagraphTags(article))
    /\ (Finished /\ ~in_sidenote_block) =>
           Len(ParagraphTags(article)) % 2 = 0

\* ------------------------------------------------------------------ C34
\* The section openings of a body: one with every end of a level-1 header.
SectionOpenings(html) == Count(html, InlineHtml("</h1><section>"))

\* The section closings of a body: the one html_from_markdown pushes last.
SectionClosings(html) == Count(html, Literal("</section></article>"))

\* C34: in the body html_from_markdown returns there are as many section
\* openings as section closings, whatever the number of level-1 headers of
\* the document.
C34_SectionsBalance ==
    (result # None /\ result[1].ok) =>
        SectionOpenings(result[1].html) = SectionClosings(result[1].html)

\* ------------------------------------------------------------------ C35
\* Every entry was published no later than it was updated.
PublishedBeforeUpdated(idx) ==
    \A k \in 1..Len(idx) : idx[k].first_published <= idx[k].last_updated

\* No entry of `after` has an earlier last_updated than the entry of
\* `before` for the same post.
NotEarlier(before, after) ==
    \A j \in 1..Len(before), k \in 1..Len(after) :
        before[j].post_url = after[k].post_url =>
            before[j].last_updated <= after[k].last_updated

\* C35: the last_updated of an index entry never decreases, in a pass from
\* the index it loaded and from one index file to the next, and every
\* entry has first_published <= last_updated.
C35_TimesMonotone ==
    [][/\ NotEarlier(pass'.loaded, index')
       /\ PublishedBeforeUpdated(index')
       /\ fs_index' # fs_index =>
             /\ NotEarlier(Records(fs_index), Records(fs_index'))
             /\ PublishedBeforeUpdated(Records(fs_index'))]_vars

\* A pass wrote an index in which a post has a later last_updated than in
\* the index file the pass found, and a post published before the time of
\* its last update.
C35_Witness ==
    /\ Succeeded
    /\ "index" \in pass.wrote
    /\ \E j \in 1..Len(Rows(pass.fs_index)), k \in 1..Len(Rows(fs_index)) :
          /\ Records(pass.fs_index)[j].post_url = Records(fs_index)[k].post_url
          /\ Records(pass.fs_index)[j].last_updated
                 < Records(fs_index)[k].last_updated
    /\ \E k \in 1..Len(Rows(fs_index)) :
          Records(fs_index)[k].first_published
              < Records(fs_index)[k].last_updated

\* ------------------------------------------------------------------ C36
\* The index file the pass found lists the posts the pass found, each once
\* and none older than its directory: nothing has changed on disk since the
\* index was written.
NothingChanged ==
    LET found == Records(pass.fs_index) IN
    /\ UrlsOf(found) = FoundUrls
    /\ Len(found) = Cardinality(FoundUrls)
    /\ \A j \in 1..Len(found), p \in MarkedDirs :
          found[j].post_url = post_url_from_path(blog_path \o <<p>>) =>
              ~(found[j].last_updated < fs_posts[p].mtime)

\* C36: load makes the index of the Blog the records of the index file,
\* whatever the Blog held before; so sync called again on the same Blog,
\* with nothing changed on disk, returns 0 and leaves one entry for each
\* post.
C36_ReloadReplaces ==
    /\ pass.scanned => pass.loaded = load(<<>>, Rows(pass.fs_index))
    /\ (Succeeded /\ pass.reused /\ NothingChanged) =>
           /\ sync_result[1].n = 0
           /\ Len(index) = Cardinality(UrlsOf(index))

\* ------------------------------------------------------------------ C37
\* The init command ends in this step, with an error of Blog::init.
InitFails ==
    /\ sync_pc = "idle"
    /\ sync_pc' = "done"
    /\ pass'.args = <<"init">>
    /\ pass'.reported # None
    /\ pass'.reported[1] \in {"InitWrite", "InitTemplate", "InitCopy"}

\* C37: an init that returns an error leaves the index file as it was, absent
\* or with the records it held: none is created and none is truncated, so
\* that a sync in a directory that was not initialised still reports NoInit.
C37_FailedInitKeepsIndex ==
    [][InitFails => fs_index' = fs_index]_vars

\* ------------------------------------------------------------------ C38
\* The entries of `after` that `before` does not hold as they are: new, or
\* with another time.
Stamped(before, after) ==
    {k \in 1..Len(after) :
        \A j \in 1..Len(before) :
            ~(/\ before[j].post_url = after[k].post_url
              /\ before[j].last_updated = after[k].last_updated)}

\* C38: the index file is written only after the table of contents, and
\* every entry it gets that is new or has a new last_updated is of a post
\* this pass converted without an error; a pass in which a conversion
\* failed writes no index.
C38_PersistAfterConversion ==
    [][fs_index' # fs_index /\ sync_pc = "persist" =>
          LET after == Records(fs_index') IN
          /\ "toc" \in pass.wrote
          /\ \A k \in Stamped(Records(fs_index), after) :
                \E c \in 1..Len(pass.converted) :
                    pass.converted[c] = after[k].post_url
          /\ Len(pass.converted) + Cardinality(RemovedEntries)
                 = num_updated]_vars

\* A pass converted a new post and a changed one, wrote the table of
\* contents and then the index with both.
C38_Witness ==
    /\ Succeeded
    /\ pass.wrote = {"toc", "index"}
    /\ Len(pass.converted) = 2
    /\ Len(pass.loaded) = 1
    /\ Cardinality(Stamped(Records(pass.fs_index), Records(fs_index))) = 2

=============================================================================
